---- MODULE Spec2Model ----
(***************************************************************************)
(* Model of package log: the Stats aggregator (src/log/stats.go) and the   *)
(* RiemannClient sink it pushes to (src/unnamed/part_000).                 *)
(*                                                                         *)
(* Goroutines: the Stats loop, the RiemannClient loop, Producers calling   *)
(* Incr/Decr/Timing/Gauge/GetStats, Closers calling Stats.Close, and an    *)
(* owner thread that attaches (UseRiemann) and closes the sink.            *)
(*                                                                         *)
(* Every read or write of a struct field shared between goroutines is its  *)
(* own step, so all interleavings of the unsynchronised accesses occur.    *)
(* Go ints are 64 bit; the deltas used here never approach that width.     *)
(* float64 values are represented by integers tagged with their kind.      *)
(***************************************************************************)
EXTENDS Integers, Sequences, FiniteSets, TLC

---------------------------------------------------------------------------
(* Bounds of the model *)

MaxCalls == 2
MaxWrites == 3
MaxJobBuffer == 2
MaxNow == 1
SinkJobBuffer == 1

Producers == {1, 2}
Closers == {1, 2}

(* Inputs the producers draw from *)
Names == {"requests"}
Deltas == {1, 2}
Floats == {1, 2}
Timeouts == {0, 1}
RootPaths == {"service"}

(* Program constants *)
PushIntervalMs == 1000

InternalNames == {"stats.requests", "uptime", "goroutines"}
AllNames == Names \cup InternalNames

---------------------------------------------------------------------------
VARIABLES
  config,         \* StatsConfig given to NewStats
  pathPrefix,     \* Stats.pathPrefix
  jobChan,        \* Stats.jobChan field: "chan" or "nil"
  chanClosed,     \* whether the channel made in NewStats has been closed
  chanBuf,        \* its buffered jobs, oldest first
  flatStats,      \* Stats.flatStats
  json,           \* Stats.json: [nil, tree], the object at the root path
  riemannClient,  \* Stats.riemannClient field: "client" or "nil"
  now,            \* wall clock in seconds since NewStats; MaxNow means MaxNow or later
  pushTimer,      \* second at which pushTimer.C becomes ready
  loopPc,         \* position of Stats.loop
  loopCh,         \* the channel value the loop's select is waiting on
  loopOut,        \* events the loop is about to hand to the sink
  pc,             \* position of each producer
  call,           \* the call each producer is in
  ch,             \* channel value a producer read from s.jobChan
  responseChan,   \* GetStats responseChan of the producer's current call
  errorChan,      \* GetStats errorChan of the producer's current call
  deadline,       \* second at which the producer's time.After fires
  result,         \* what the producer's last GetStats returned
  cpc,            \* position of each Close call
  cjChan,         \* local jChan of each Close call
  rJobChan,       \* RiemannClient.jobChan field
  rClosed,        \* whether the sink's channel has been closed
  rBuf,           \* the sink's buffered jobs
  rLoop,          \* whether RiemannClient.loop is still ranging
  panicked,       \* "no", or the runtime panic that aborted the process
  applied,        \* history: the jobs the loop has run, in order
  ncalls          \* history: number of producer calls started

vars == <<config, pathPrefix, jobChan, chanClosed, chanBuf, flatStats, json,
          riemannClient, now, pushTimer, loopPc, loopCh, loopOut, pc, call, ch,
          responseChan, errorChan, deadline, result, cpc, cjChan, rJobChan,
          rClosed, rBuf, rLoop, panicked, applied, ncalls>>

statsVars == <<config, pathPrefix, flatStats, json>>
chanVars == <<jobChan, chanClosed, chanBuf>>
loopVars == <<loopPc, loopCh, loopOut>>
prodVars == <<pc, call, ch, responseChan, errorChan, deadline, result, ncalls>>
closeVars == <<cpc, cjChan>>
sinkVars == <<rJobChan, rClosed, rBuf, rLoop>>

---------------------------------------------------------------------------
(* Values *)

Absent == [kind |-> "absent", v |-> 0]
IntVal(n) == [kind |-> "int", v |-> n]
FloatVal(x) == [kind |-> "float64", v |-> x]

NoCall == [op |-> "none", stat |-> "", value |-> 0, timeout |-> 0, k |-> 0,
           when |-> "none", busy |-> FALSE, phase |-> "none"]
NoBody == [root |-> "", tree |-> [n \in AllNames |-> Absent]]
(* What travels on responseChan / errorChan and what GetStats returns; *)
(* k and timeout identify the call, at is history: Len(applied) at the reply *)
Msg(kind, body, err, at, k, timeout) ==
  [kind |-> kind, body |-> body, err |-> err, at |-> at, k |-> k, timeout |-> timeout]
NoMsg == Msg("none", NoBody, "", 0, 0, 0)
NoOut == [from |-> "none", events |-> {}, at |-> 0, rch |-> "nil"]

Min(a, b) == IF a < b THEN a ELSE b

(* time.After / time.NewTimer / Timer.Reset on the saturating clock *)
TimerAt(d) == Min(now + d, MaxNow)

---------------------------------------------------------------------------
(* NewStats *)

Configs == [JobBuffer : 1..MaxJobBuffer, RootPath : RootPaths,
            RetainInternal : BOOLEAN, PushInterval : {PushIntervalMs}]

(* pathPrefix is only set inside the RetainInternal branch *)
NewPathPrefix(cfg) ==
  IF cfg.RetainInternal /\ Len(cfg.RootPath) > 0 THEN cfg.RootPath \o "." ELSE ""

(* NewStats building the tree whatever RetainInternal says *)
NewJsonAlways(cfg) ==
  [nil |-> FALSE, tree |-> [n \in AllNames |-> Absent]]

(* s.json: nil without retention, otherwise the empty object at RootPath *)
NewJson(cfg) ==
  [nil |-> ~cfg.RetainInternal, tree |-> [n \in AllNames |-> Absent]]

(* time.Duration(PushInterval) * time.Millisecond, in clock seconds *)
pushPeriod == config.PushInterval \div 1000

InitWith(cfgs) ==
  /\ config \in cfgs
  /\ pathPrefix = NewPathPrefix(config)
  /\ jobChan = "chan"
  /\ chanClosed = FALSE
  /\ chanBuf = <<>>
  /\ flatStats = [n \in AllNames |-> Absent]
  /\ json = NewJson(config)
  /\ riemannClient = "nil"
  /\ now = 0
  /\ pushTimer = Min(config.PushInterval \div 1000, MaxNow)
  /\ loopPc = "for"
  /\ loopCh = "nil"
  /\ loopOut = NoOut
  /\ pc = [p \in Producers |-> "idle"]
  /\ call = [p \in Producers |-> NoCall]
  /\ ch = [p \in Producers |-> "nil"]
  /\ responseChan = [p \in Producers |-> NoMsg]
  /\ errorChan = [p \in Producers |-> NoMsg]
  /\ deadline = [p \in Producers |-> 0]
  /\ result = [p \in Producers |-> NoMsg]
  /\ cpc = [c \in Closers |-> "idle"]
  /\ cjChan = [c \in Closers |-> "nil"]
  /\ rJobChan = "chan"
  /\ rClosed = FALSE
  /\ rBuf = <<>>
  /\ rLoop = TRUE
  /\ panicked = "no"
  /\ applied = <<>>
  /\ ncalls = [p \in Producers |-> 0]

Init == InitWith(Configs)

(* NewStats with a queue of MaxJobBuffer closures, with and without retention *)
InitRetain ==
  InitWith({cfg \in Configs : cfg.RetainInternal /\ cfg.JobBuffer = MaxJobBuffer})

InitNoRetain ==
  InitWith({cfg \in Configs : ~cfg.RetainInternal /\ cfg.JobBuffer = MaxJobBuffer})

(* NewStats with a queue of one closure *)
InitSmall ==
  InitWith({cfg \in Configs : cfg.RetainInternal /\ cfg.JobBuffer = 1})

---------------------------------------------------------------------------
(* The closures the producers enqueue, as functions on the store *)

Store == [flat |-> flatStats, json |-> json]

Number(n) == [kind |-> "number", v |-> n]
(* fmt.Sprintf("%vs", x) *)
SecondsString(x) == [kind |-> "string", v |-> x]

(* s.json.SetP(value, stat) guarded by nil != s.json *)
SetP(js, jv, stat) == IF js.nil THEN js ELSE [js EXCEPT !.tree[stat] = jv]

(* the type assertion taking the number of a stored float64 as well *)
AsIntAny(val) == val.v

(* total, _ := s.flatStats[stat].(int): zero unless the stored value is an int *)
AsInt(val) == IF val.kind = "int" THEN val.v ELSE 0

(* IncrJob storing the delta instead of adding it to the total *)
IncrJobOverwrite(st, stat, value) ==
  [flat |-> [st.flat EXCEPT ![stat] = IntVal(value)],
   json |-> SetP(st.json, Number(value), stat)]

IncrJob(st, stat, value) ==
  LET total == AsInt(st.flat[stat]) + value
  IN  [flat |-> [st.flat EXCEPT ![stat] = IntVal(total)],
       json |-> SetP(st.json, Number(total), stat)]

DecrJob(st, stat, value) ==
  LET total == AsInt(st.flat[stat]) - value
  IN  [flat |-> [st.flat EXCEPT ![stat] = IntVal(total)],
       json |-> SetP(st.json, Number(total), stat)]

TimingJob(st, stat, delta) ==
  [flat |-> [st.flat EXCEPT ![stat] = FloatVal(delta)],
   json |-> SetP(st.json, SecondsString(delta), stat)]

(* GaugeJob keeping a value that is already stored *)
GaugeJobKeepFirst(st, stat, value) ==
  IF st.flat[stat] # Absent THEN st
  ELSE [flat |-> [st.flat EXCEPT ![stat] = FloatVal(value)],
        json |-> SetP(st.json, Number(value), stat)]

GaugeJob(st, stat, value) ==
  [flat |-> [st.flat EXCEPT ![stat] = FloatVal(value)],
   json |-> SetP(st.json, Number(value), stat)]

(* runtime.NumGoroutine(): main, producers, closers and the two loops *)
NumGoroutine ==
  1 + Cardinality(Producers) + Cardinality(Closers)
    + (IF loopPc = "exited" THEN 0 ELSE 1) + (IF rLoop THEN 1 ELSE 0)

updateInternals(st) ==
  LET uptime == now
      goroutines == NumGoroutine
  IN  [flat |-> [st.flat EXCEPT !["uptime"] = FloatVal(uptime),
                                !["goroutines"] = IntVal(goroutines)],
       json |-> SetP(SetP(st.json, SecondsString(uptime), "uptime"),
                     Number(goroutines), "goroutines")]

(* s.jsonRoot.String(): the tree, nested under RootPath when one is set *)
JsonRootString(js) == [root |-> config.RootPath, tree |-> js.tree]

(* The RiemannEvent built for one stat; TTL in thousandths of a second *)
Event(stat, val) ==
  [Service |-> pathPrefix \o stat, Metric |-> val, Tags |-> <<"stat">>,
   TTL |-> config.PushInterval * 2]

(* for flatStat, value := range s.flatStats: one event per stored stat *)
FlushEvents(flat) ==
  {Event(n, flat[n]) : n \in {m \in AllNames : flat[m] # Absent}}

(* A send on a Go channel: c is the channel value the sender evaluated *)
SendOutcome(c, closed, buf, cap) ==
  IF c = "nil" THEN "block"
  ELSE IF closed THEN "panic"
  ELSE IF Len(buf) < cap THEN "ok"
  ELSE "block"

---------------------------------------------------------------------------
(* Producers: Incr, Decr, Timing, Gauge, GetStats *)

TotalCalls == ncalls[1] + ncalls[2]

(* history: where Stats.Close stands when a call starts *)
CloseStage ==
  IF \E c \in Closers : cpc[c] = "done" THEN "after"
  ELSE IF \A c \in Closers : cpc[c] = "idle" THEN "before"
  ELSE "during"

(* history: whether the loop is inside a closure or a flush when a call starts *)
LoopBusy == loopPc \in {"call_sink", "sink_send"}

(* A call starts: its first statement evaluates s.jobChan for the send *)
Begin(p, op, stat, value, timeout) ==
  /\ pc[p] = "idle"
  /\ ncalls' = [ncalls EXCEPT ![p] = @ + 1]
  /\ call' = [call EXCEPT ![p] =
                [op |-> op, stat |-> stat, value |-> value, timeout |-> timeout,
                 k |-> ncalls[p] + 1, when |-> CloseStage, busy |-> LoopBusy,
                 phase |-> IF op = "GetStats" THEN "incr" ELSE "job"]]
  /\ ch' = [ch EXCEPT ![p] = jobChan]
  /\ pc' = [pc EXCEPT ![p] = "send"]
  /\ responseChan' = [responseChan EXCEPT ![p] = NoMsg]
  /\ errorChan' = [errorChan EXCEPT ![p] = NoMsg]
  /\ result' = [result EXCEPT ![p] = NoMsg]
  /\ UNCHANGED deadline
  /\ UNCHANGED <<statsVars, chanVars, riemannClient, now, pushTimer, loopVars,
                 closeVars, sinkVars, panicked, applied>>

Incr(p) == \E stat \in Names, value \in Deltas : Begin(p, "Incr", stat, value, 0)

Decr(p) == \E stat \in Names, value \in Deltas : Begin(p, "Decr", stat, value, 0)

Timing(p) == \E stat \in Names, delta \in Floats : Begin(p, "Timing", stat, delta, 0)

Gauge(p) == \E stat \in Names, value \in Floats : Begin(p, "Gauge", stat, value, 0)

GetStats(p) == \E timeout \in Timeouts : Begin(p, "GetStats", "", 0, timeout)

(* GetStats sending its own closure before the closure of s.Incr *)
JobOfReadFirst(p) ==
  IF call[p].op = "GetStats" /\ call[p].phase = "job"
  THEN [op |-> "Incr", stat |-> "stats.requests", value |-> 1,
        p |-> p, k |-> call[p].k, when |-> call[p].when]
  ELSE [op |-> call[p].op, stat |-> call[p].stat, value |-> call[p].value,
        p |-> p, k |-> call[p].k, when |-> call[p].when]

(* The closure the producer is about to send: GetStats first sends the    *)
(* closure of s.Incr("stats.requests", 1), then its own. p, k and when are *)
(* history: the call the closure belongs to.                              *)
JobOf(p) ==
  IF call[p].phase = "incr"
  THEN [op |-> "Incr", stat |-> "stats.requests", value |-> 1,
        p |-> p, k |-> call[p].k, when |-> call[p].when]
  ELSE [op |-> call[p].op, stat |-> call[p].stat, value |-> call[p].value,
        p |-> p, k |-> call[p].k, when |-> call[p].when]

(* history: the number of sends on the job channel that have completed *)
Sent == Len(applied) + Len(chanBuf)

(* the closure with its arrival number (history) *)
Arrival(job) ==
  [op |-> job.op, stat |-> job.stat, value |-> job.value, p |-> job.p,
   k |-> job.k, when |-> job.when, seq |-> Sent + 1]

(* GetStats, after s.Incr returned: s.jobChan is evaluated for the second send *)
EvalJobChan(p) ==
  /\ pc[p] = "eval"
  /\ ch' = [ch EXCEPT ![p] = jobChan]
  /\ pc' = [pc EXCEPT ![p] = "send"]
  /\ UNCHANGED <<call, responseChan, errorChan, deadline, result, ncalls>>
  /\ UNCHANGED <<statsVars, chanVars, riemannClient, now, pushTimer, loopVars,
                 closeVars, sinkVars, panicked, applied>>

(* The producer running its closure on its own goroutine instead of      *)
(* sending it to the loop                                                *)
SendJobInline(p) ==
  /\ pc[p] = "send"
  /\ SendOutcome(ch[p], chanClosed, chanBuf, config.JobBuffer) = "ok"
  /\ flatStats' = GaugeJob(Store, call[p].stat, call[p].value).flat
  /\ json' = GaugeJob(Store, call[p].stat, call[p].value).json
  /\ pc' = [pc EXCEPT ![p] = "idle"]
  /\ call' = [call EXCEPT ![p] = NoCall]
  /\ ch' = [ch EXCEPT ![p] = "nil"]
  /\ UNCHANGED <<responseChan, errorChan, deadline, result, ncalls>>
  /\ UNCHANGED <<config, pathPrefix, chanVars, riemannClient, now, pushTimer,
                 loopVars, closeVars, sinkVars, panicked, applied>>

(* s.jobChan <- func() {...} completes *)
SendJob(p) ==
  /\ pc[p] = "send"
  /\ SendOutcome(ch[p], chanClosed, chanBuf, config.JobBuffer) = "ok"
  /\ chanBuf' = Append(chanBuf, Arrival(JobOf(p)))
  /\ IF call[p].op = "GetStats" /\ call[p].phase = "incr"
     THEN /\ call' = [call EXCEPT ![p].phase = "job"]
          /\ pc' = [pc EXCEPT ![p] = "eval"]
          /\ UNCHANGED deadline
     ELSE IF call[p].op = "GetStats"
     THEN /\ pc' = [pc EXCEPT ![p] = "select"]
          /\ deadline' = [deadline EXCEPT ![p] = TimerAt(call[p].timeout)]
          /\ UNCHANGED call
     ELSE /\ pc' = [pc EXCEPT ![p] = "idle"]
          /\ call' = [call EXCEPT ![p] = NoCall]
          /\ UNCHANGED deadline
  /\ ch' = [ch EXCEPT ![p] = "nil"]
  /\ UNCHANGED <<responseChan, errorChan, result, ncalls>>
  /\ UNCHANGED <<statsVars, jobChan, chanClosed, riemannClient, now, pushTimer,
                 loopVars, closeVars, sinkVars, panicked, applied>>

(* the send finds the channel closed: panic: send on closed channel *)
SendPanic(p) ==
  /\ pc[p] = "send"
  /\ SendOutcome(ch[p], chanClosed, chanBuf, config.JobBuffer) = "panic"
  /\ panicked' = "send on closed channel"
  /\ UNCHANGED <<statsVars, chanVars, riemannClient, now, pushTimer, loopVars,
                 prodVars, closeVars, sinkVars, applied>>

Return(p, r) ==
  /\ pc[p] = "select"
  /\ result' = [result EXCEPT ![p] = r]
  /\ pc' = [pc EXCEPT ![p] = "idle"]
  /\ call' = [call EXCEPT ![p] = NoCall]
  /\ responseChan' = [responseChan EXCEPT ![p] = NoMsg]
  /\ errorChan' = [errorChan EXCEPT ![p] = NoMsg]
  /\ deadline' = [deadline EXCEPT ![p] = 0]
  /\ UNCHANGED <<ch, ncalls>>
  /\ UNCHANGED <<statsVars, chanVars, riemannClient, now, pushTimer, loopVars,
                 closeVars, sinkVars, panicked, applied>>

(* case stats := <-responseChan *)
GetStatsResponse(p) ==
  /\ responseChan[p] # NoMsg
  /\ Return(p, responseChan[p])

(* case err := <-errorChan *)
GetStatsError(p) ==
  /\ errorChan[p] # NoMsg
  /\ Return(p, errorChan[p])

(* case <-time.After(timeout) *)
GetStatsTimeout(p) ==
  /\ now >= deadline[p]
  /\ Return(p, Msg("error", NoBody, "ErrTimedOut", Len(applied), call[p].k,
                   call[p].timeout))

---------------------------------------------------------------------------
(* Stats.loop *)

(* every closure refreshing the derived metrics after its own work *)
RunJobRefreshing(st, job) ==
  updateInternals(
    CASE job.op = "Incr" -> IncrJob(st, job.stat, job.value)
      [] job.op = "Decr" -> DecrJob(st, job.stat, job.value)
      [] job.op = "Timing" -> TimingJob(st, job.stat, job.value)
      [] job.op = "Gauge" -> GaugeJob(st, job.stat, job.value)
      [] job.op = "GetStats" -> st)

(* the job closure of each producer call, run inside the loop *)
RunJob(st, job) ==
  CASE job.op = "Incr" -> IncrJob(st, job.stat, job.value)
    [] job.op = "Decr" -> DecrJob(st, job.stat, job.value)
    [] job.op = "Timing" -> TimingJob(st, job.stat, job.value)
    [] job.op = "Gauge" -> GaugeJob(st, job.stat, job.value)
    [] job.op = "GetStats" -> IF st.json.nil THEN st ELSE updateInternals(st)

(* The reply the GetStats closure sends, and the channel it sends it on *)
GetStatsReply(st, job) ==
  IF ~st.json.nil
  THEN Msg("json", JsonRootString(st.json), "", Len(applied) + 1,
           job.k, call[job.p].timeout)
  ELSE Msg("error", NoBody, "ErrStatsNotTracked", Len(applied) + 1,
           job.k, call[job.p].timeout)

(* GetStats keeping one pair of channels for all its calls: a reply to a  *)
(* call that has returned lands where the caller's next call reads        *)
WaitingAnyCall(job) == call[job.p].op = "GetStats"

(* The channels of a call are referenced by the caller only while it is in *)
(* that call: a reply to a call that has returned lands in a channel that   *)
(* nobody reads.                                                           *)
Waiting(job) == call[job.p].op = "GetStats" /\ call[job.p].k = job.k

(* for running { select { ... evaluates s.jobChan and waits *)
LoopSelect ==
  /\ loopPc = "for"
  /\ loopCh' = jobChan
  /\ loopPc' = "select"
  /\ UNCHANGED <<loopOut, statsVars, chanVars, riemannClient, now, pushTimer,
                 prodVars, closeVars, sinkVars, panicked, applied>>

(* case job, running = <-s.jobChan with a job: job() *)
LoopJob ==
  /\ loopPc = "select"
  /\ loopCh = "chan"
  /\ chanBuf # <<>>
  /\ LET job == Head(chanBuf)
         st == RunJob(Store, job)
         sink == job.op \in {"Timing", "Gauge"} /\ riemannClient # "nil"
     IN  /\ chanBuf' = Tail(chanBuf)
         /\ flatStats' = st.flat
         /\ json' = st.json
         /\ applied' = Append(applied, job)
         /\ loopCh' = "nil"
         /\ IF job.op = "GetStats" /\ Waiting(job)
            THEN IF st.json.nil
                 THEN /\ errorChan' = [errorChan EXCEPT ![job.p] = GetStatsReply(st, job)]
                      /\ UNCHANGED responseChan
                 ELSE /\ responseChan' = [responseChan EXCEPT ![job.p] = GetStatsReply(st, job)]
                      /\ UNCHANGED errorChan
            ELSE UNCHANGED <<responseChan, errorChan>>
         /\ IF sink
            THEN /\ loopPc' = "call_sink"
                 /\ loopOut' = [from |-> "job", rch |-> "nil", at |-> Len(applied) + 1,
                                events |-> {Event(job.stat, st.flat[job.stat])}]
            ELSE /\ loopPc' = "for"
                 /\ UNCHANGED loopOut
  /\ UNCHANGED <<config, pathPrefix, jobChan, chanClosed, riemannClient, now,
                 pushTimer, pc, call, ch, deadline, result, ncalls,
                 closeVars, sinkVars, panicked>>

(* case job, running = <-s.jobChan on the closed and drained channel *)
LoopClosed ==
  /\ loopPc = "select"
  /\ loopCh = "chan"
  /\ chanBuf = <<>>
  /\ chanClosed
  /\ loopPc' = "exited"
  /\ loopCh' = "nil"
  /\ UNCHANGED <<loopOut, statsVars, chanVars, riemannClient, now,
                 pushTimer, prodVars, closeVars, sinkVars, panicked, applied>>

(* case <-pushTimer.C *)
LoopTimer ==
  /\ loopPc = "select"
  /\ now >= pushTimer
  /\ LET st == updateInternals(Store)
     IN  /\ flatStats' = st.flat
         /\ json' = st.json
         /\ IF riemannClient # "nil"
            THEN /\ loopPc' = "call_sink"
                 /\ loopOut' = [from |-> "flush", rch |-> "nil", at |-> Len(applied),
                                events |-> FlushEvents(st.flat)]
                 /\ UNCHANGED pushTimer
            ELSE /\ loopPc' = "for"
                 /\ pushTimer' = TimerAt(pushPeriod)
                 /\ UNCHANGED loopOut
  /\ loopCh' = "nil"
  /\ UNCHANGED <<config, pathPrefix, chanVars, riemannClient, now,
                 prodVars, closeVars, sinkVars, panicked, applied>>

(* s.riemannClient.SendEvent / SendEvents is called: the receiver is the    *)
(* pointer loaded for the nil check or a fresh load of the field (either   *)
(* is a legal compilation of the unsynchronised reads); with a non-nil     *)
(* receiver the callee evaluates r.jobChan                                 *)
LoopCallSink ==
  /\ loopPc = "call_sink"
  /\ loopOut' = [loopOut EXCEPT !.rch = rJobChan]
  /\ loopPc' = "sink_send"
  /\ UNCHANGED <<loopCh, statsVars, chanVars, riemannClient, now, pushTimer,
                 prodVars, closeVars, sinkVars, panicked, applied>>

(* the field is loaded again after Close set it to nil: r.jobChan on a nil r *)
LoopCallSinkNil ==
  /\ loopPc = "call_sink"
  /\ riemannClient = "nil"
  /\ panicked' = "nil pointer dereference"
  /\ UNCHANGED <<loopVars, statsVars, chanVars, riemannClient, now, pushTimer,
                 prodVars, closeVars, sinkVars, applied>>

(* SendEvent(event): the closure it sends on r.jobChan, which will hand   *)
(* the event to the client library; at is history: Len(applied) at the    *)
(* time the event was built                                               *)
SendEvent(out) == [events |-> out.events, at |-> out.at]

(* SendEvents(events), which the loop calls at stats.go:289, is not among  *)
(* the sources. It is taken to hand the whole batch to the sink in one     *)
(* call, the way SendEvent hands over one event: one closure on r.jobChan. *)
SendEvents(out) == [events |-> out.events, at |-> out.at]

(* r.jobChan <- func() {...} completes; after a flush pushTimer.Reset *)
LoopSinkSend ==
  /\ loopPc = "sink_send"
  /\ SendOutcome(loopOut.rch, rClosed, rBuf, SinkJobBuffer) = "ok"
  /\ rBuf' = Append(rBuf, IF loopOut.from = "flush" THEN SendEvents(loopOut)
                                                    ELSE SendEvent(loopOut))
  /\ pushTimer' = IF loopOut.from = "flush" THEN TimerAt(pushPeriod) ELSE pushTimer
  /\ loopPc' = "for"
  /\ loopOut' = NoOut
  /\ UNCHANGED <<loopCh, statsVars, chanVars, riemannClient, now, prodVars,
                 closeVars, rJobChan, rClosed, rLoop, panicked, applied>>

LoopSinkPanic ==
  /\ loopPc = "sink_send"
  /\ SendOutcome(loopOut.rch, rClosed, rBuf, SinkJobBuffer) = "panic"
  /\ panicked' = "send on closed channel"
  /\ UNCHANGED <<loopVars, statsVars, chanVars, riemannClient, now, pushTimer,
                 prodVars, closeVars, sinkVars, applied>>

---------------------------------------------------------------------------
(* Stats.Close, one step per statement *)

(* jChan := s.jobChan *)
CloseRead(c) ==
  /\ cpc[c] = "idle"
  /\ cjChan' = [cjChan EXCEPT ![c] = jobChan]
  /\ cpc' = [cpc EXCEPT ![c] = "nil"]
  /\ UNCHANGED <<statsVars, chanVars, riemannClient, now, pushTimer, loopVars,
                 prodVars, sinkVars, panicked, applied>>

(* Close returning without having niled or closed the channel *)
CloseNilForgotten(c) ==
  /\ cpc[c] = "nil"
  /\ cpc' = [cpc EXCEPT ![c] = "detach"]
  /\ UNCHANGED <<cjChan, statsVars, chanVars, riemannClient, now,
                 pushTimer, loopVars, prodVars, sinkVars, panicked, applied>>

(* s.jobChan = nil *)
CloseNil(c) ==
  /\ cpc[c] = "nil"
  /\ jobChan' = "nil"
  /\ cpc' = [cpc EXCEPT ![c] = "close"]
  /\ UNCHANGED <<cjChan, statsVars, chanClosed, chanBuf, riemannClient, now,
                 pushTimer, loopVars, prodVars, sinkVars, panicked, applied>>

(* close(jChan) *)
CloseChan(c) ==
  /\ cpc[c] = "close"
  /\ IF cjChan[c] = "nil"
     THEN /\ panicked' = "close of nil channel"
          /\ UNCHANGED <<cpc, chanClosed>>
     ELSE IF chanClosed
     THEN /\ panicked' = "close of closed channel"
          /\ UNCHANGED <<cpc, chanClosed>>
     ELSE /\ chanClosed' = TRUE
          /\ cpc' = [cpc EXCEPT ![c] = "detach"]
          /\ UNCHANGED panicked
  /\ UNCHANGED <<cjChan, statsVars, jobChan, chanBuf, riemannClient, now,
                 pushTimer, loopVars, prodVars, sinkVars, applied>>

(* Close closing the sink it detaches, as if it owned it *)
CloseDetachClosingSink(c) ==
  /\ cpc[c] = "detach"
  /\ riemannClient' = "nil"
  /\ rJobChan' = IF riemannClient # "nil" THEN "nil" ELSE rJobChan
  /\ rClosed' = IF riemannClient # "nil" THEN TRUE ELSE rClosed
  /\ cpc' = [cpc EXCEPT ![c] = "done"]
  /\ UNCHANGED <<cjChan, statsVars, chanVars, now, pushTimer, loopVars,
                 prodVars, rBuf, rLoop, panicked, applied>>

(* s.riemannClient = nil *)
CloseDetach(c) ==
  /\ cpc[c] = "detach"
  /\ riemannClient' = "nil"
  /\ cpc' = [cpc EXCEPT ![c] = "done"]
  /\ UNCHANGED <<cjChan, statsVars, chanVars, now, pushTimer, loopVars,
                 prodVars, sinkVars, panicked, applied>>

---------------------------------------------------------------------------
(* The sink and its owner *)

UseRiemann ==
  /\ \E client \in {"nil", "client"} :
       riemannClient' = IF client = "nil" THEN riemannClient ELSE client
  /\ UNCHANGED <<statsVars, chanVars, now, pushTimer, loopVars, prodVars,
                 closeVars, sinkVars, panicked, applied>>

(* for job := range r.jobChan { job() } *)
RiemannLoop ==
  /\ rLoop
  /\ rBuf # <<>>
  /\ rBuf' = Tail(rBuf)
  /\ UNCHANGED <<rJobChan, rClosed, rLoop, statsVars, chanVars, riemannClient,
                 now, pushTimer, loopVars, prodVars, closeVars, panicked, applied>>

RiemannLoopExit ==
  /\ rLoop
  /\ rBuf = <<>>
  /\ rClosed
  /\ rLoop' = FALSE
  /\ UNCHANGED <<rJobChan, rClosed, rBuf, statsVars, chanVars, riemannClient,
                 now, pushTimer, loopVars, prodVars, closeVars, panicked, applied>>

(* RiemannClient.Close, called once by the owner of the sink *)
RiemannClose ==
  /\ rJobChan = "chan"
  /\ rJobChan' = "nil"
  /\ rClosed' = TRUE
  /\ UNCHANGED <<rBuf, rLoop, statsVars, chanVars, riemannClient, now,
                 pushTimer, loopVars, prodVars, closeVars, panicked, applied>>

(* one second passes *)
Tick ==
  /\ now < MaxNow
  /\ now' = now + 1
  /\ UNCHANGED <<statsVars, chanVars, riemannClient, pushTimer, loopVars,
                 prodVars, closeVars, sinkVars, panicked, applied>>

---------------------------------------------------------------------------
(* The steps of each goroutine *)

(* a producer enters one of the five operations *)
Calls(p) ==
  \/ Incr(p)
  \/ Decr(p)
  \/ Timing(p)
  \/ Gauge(p)
  \/ GetStats(p)

(* a producer continues the call it is in *)
Steps(p) ==
  \/ EvalJobChan(p)
  \/ SendJob(p)
  \/ SendPanic(p)
  \/ GetStatsResponse(p)
  \/ GetStatsError(p)
  \/ GetStatsTimeout(p)

Close(c) ==
  \/ CloseRead(c)
  \/ CloseNil(c)
  \/ CloseChan(c)
  \/ CloseDetach(c)

loop ==
  \/ LoopSelect
  \/ LoopJob
  \/ LoopClosed
  \/ LoopTimer

loopSink ==
  \/ LoopCallSink
  \/ LoopCallSinkNil
  \/ LoopSinkSend
  \/ LoopSinkPanic

Riemann ==
  \/ UseRiemann
  \/ RiemannLoop
  \/ RiemannLoopExit
  \/ RiemannClose

(* The whole program; a runtime panic aborts every goroutine *)
Next ==
  /\ panicked = "no"
  /\ \/ \E p \in Producers : TotalCalls < MaxCalls /\ Calls(p)
     \/ \E p \in Producers : Steps(p)
     \/ \E c \in Closers : Close(c)
     \/ loop
     \/ loopSink
     \/ Riemann
     \/ Tick

Spec == Init /\ [][Next]_vars

(* Two producers, the loop and one Close call; no sink is ever attached *)
NextCore ==
  /\ panicked = "no"
  /\ \/ \E p \in Producers : TotalCalls < MaxCalls /\ Calls(p)
     \/ \E p \in Producers : Steps(p)
     \/ \E c \in {1} : Close(c)
     \/ loop
     \/ Tick

SpecCore == InitRetain /\ [][NextCore]_vars

SpecNoRetain == InitNoRetain /\ [][NextCore]_vars

(* Two producers that only write gauges and timings and read them back *)
NextWrites ==
  /\ panicked = "no"
  /\ \/ \E p \in Producers :
          TotalCalls < MaxWrites /\ (Timing(p) \/ Gauge(p) \/ GetStats(p))
     \/ \E p \in Producers : Steps(p)
     \/ LoopSelect
     \/ LoopJob
     \/ LoopTimer
     \/ Tick

SpecWrites == InitRetain /\ [][NextWrites]_vars

(* One producer, the loop and the sink with its owner *)
NextSink ==
  /\ panicked = "no"
  /\ \/ \E p \in {1} : TotalCalls < MaxCalls /\ Calls(p)
     \/ \E p \in {1} : Steps(p)
     \/ loop
     \/ LoopCallSink
     \/ LoopSinkSend
     \/ LoopSinkPanic
     \/ Riemann
     \/ Tick

SpecSink == InitSmall /\ [][NextSink]_vars

(* One producer making one call, the loop and two Close calls *)
NextClose ==
  /\ panicked = "no"
  /\ \/ \E p \in {1} : TotalCalls < 1 /\ Calls(p)
     \/ \E p \in {1} : Steps(p)
     \/ \E c \in Closers : Close(c)
     \/ loop
     \/ Tick

SpecClose == Init /\ [][NextClose]_vars

(* Two producers writing gauges and timings, the loop and an open sink *)
NextShared ==
  /\ panicked = "no"
  /\ \/ \E p \in Producers : TotalCalls < MaxCalls /\ (Timing(p) \/ Gauge(p))
     \/ \E p \in Producers : SendJob(p)
     \/ LoopSelect
     \/ LoopJob
     \/ LoopTimer
     \/ LoopCallSink
     \/ LoopSinkSend
     \/ UseRiemann
     \/ RiemannLoop
     \/ Tick

SpecShared == InitRetain /\ [][NextShared]_vars

(* One producer, the loop, one Close call, and the sink with its owner,  *)
(* who never calls UseRiemann while the Close call is running             *)
NextDetach ==
  /\ panicked = "no"
  /\ \/ \E p \in {1} :
          TotalCalls < MaxCalls /\ (Incr(p) \/ Timing(p) \/ Gauge(p))
     \/ \E p \in {1} : SendJob(p) \/ SendPanic(p)
     \/ \E c \in {1} : Close(c)
     \/ loop
     \/ loopSink
     \/ (\A c \in Closers : cpc[c] \in {"idle", "done"}) /\ UseRiemann
     \/ RiemannLoop
     \/ RiemannLoopExit
     \/ RiemannClose
     \/ Tick

SpecDetach == InitSmall /\ [][NextDetach]_vars

(* One producer, the loop and the sink with its owner, within the first  *)
(* push interval: the clock stays below the first timer fire, so the only *)
(* sends to the sink are the SendEvent calls of Timing and Gauge closures *)
NextEvent ==
  /\ panicked = "no"
  /\ \/ \E p \in {1} : TotalCalls < MaxWrites /\ Calls(p)
     \/ \E p \in {1} : EvalJobChan(p) \/ SendJob(p)
     \/ \E p \in {1} : GetStatsResponse(p) \/ GetStatsError(p) \/ GetStatsTimeout(p)
     \/ LoopSelect
     \/ LoopJob
     \/ LoopCallSink
     \/ LoopSinkSend
     \/ LoopSinkPanic
     \/ Riemann

SpecEvent == Init /\ [][NextEvent]_vars

(* One producer, the loop and the clock, with and without retention *)
NextSolo ==
  /\ panicked = "no"
  /\ \/ \E p \in {1} : TotalCalls < MaxCalls /\ Calls(p)
     \/ \E p \in {1} : EvalJobChan(p) \/ SendJob(p)
     \/ \E p \in {1} : GetStatsResponse(p) \/ GetStatsError(p) \/ GetStatsTimeout(p)
     \/ LoopSelect
     \/ LoopJob
     \/ LoopTimer
     \/ Tick

SpecSolo == Init /\ [][NextSolo]_vars

---------------------------------------------------------------------------
(* Reading the history *)

Prefix(log, a) == SubSeq(log, 1, a)

(* the applied closures that wrote the stat n *)
WritesTo(log, n) == {i \in 1..Len(log) : log[i].stat = n /\ log[i].op # "GetStats"}

CounterOnly(log, n) == \A i \in WritesTo(log, n) : log[i].op \in {"Incr", "Decr"}

RECURSIVE SignedSum(_, _)
SignedSum(log, n) ==
  IF log = <<>> THEN 0
  ELSE LET j == Head(log)
           d == IF j.stat # n THEN 0
                ELSE IF j.op = "Incr" THEN j.value
                ELSE IF j.op = "Decr" THEN 0 - j.value
                ELSE 0
       IN  d + SignedSum(Tail(log), n)

(* among the applied writes of n, the one that arrived last on the queue *)
LastArrived(log, n) ==
  CHOOSE i \in WritesTo(log, n) : \A j \in WritesTo(log, n) : log[j].seq <= log[i].seq

(* how a float64 written by Gauge or Timing shows in the JSON tree *)
Shown(job) == IF job.op = "Timing" THEN SecondsString(job.value) ELSE Number(job.value)

CounterNames == Names \cup {"stats.requests"}

---------------------------------------------------------------------------
(* C1: no lost update. Whatever the interleaving of the producers, a stat *)
(* that only Incr and Decr closures have been applied to holds the signed *)
(* sum of all their deltas (it starts absent, read as 0).                 *)
C1_NoLostUpdate ==
  \A n \in CounterNames :
    (WritesTo(applied, n) # {} /\ CounterOnly(applied, n))
      => flatStats[n] = IntVal(SignedSum(applied, n))

(* both producers have had a counter update of the same stat applied *)
C1_Witness ==
  \E i, j \in 1..Len(applied) :
    /\ applied[i].p # applied[j].p
    /\ applied[i].stat = "requests" /\ applied[j].stat = "requests"
    /\ applied[i].op = "Incr" /\ applied[j].op = "Decr"
    /\ CounterOnly(applied, "requests")
    /\ flatStats["requests"] = IntVal(applied[i].value - applied[j].value)

(* C2: Gauge and Timing are last write wins in arrival order. Every        *)
(* snapshot (the body a GetStats call returned, and the events a timer     *)
(* flush builds from the store) shows, for a stat whose last arrived       *)
(* applied write is a Gauge or Timing of v, the value v.                   *)
C2_LastWriteWins ==
  /\ \A p \in Producers :
       result[p].kind = "json" =>
         \A n \in Names :
           LET log == Prefix(applied, result[p].at)
           IN  (WritesTo(log, n) # {}
                  /\ log[LastArrived(log, n)].op \in {"Timing", "Gauge"})
                 => result[p].body.tree[n] = Shown(log[LastArrived(log, n)])
  /\ \A n \in Names :
       (WritesTo(applied, n) # {}
          /\ applied[LastArrived(applied, n)].op \in {"Timing", "Gauge"})
         => Event(n, FloatVal(applied[LastArrived(applied, n)].value))
              \in FlushEvents(flatStats)

(* a GetStats returned a body taken after two different writes of one stat *)
C2_Witness ==
  \E p \in Producers :
    /\ result[p].kind = "json"
    /\ \E i, j \in 1..result[p].at :
         /\ i < j
         /\ applied[i].stat = "requests" /\ applied[j].stat = "requests"
         /\ applied[i].op \in {"Timing", "Gauge"}
         /\ applied[j].op \in {"Timing", "Gauge"}
         /\ applied[i].p # applied[j].p
         /\ applied[i].value # applied[j].value
         /\ result[p].body.tree["requests"] = Shown(applied[j])

(* C3: closures are applied in arrival order, so the body a GetStats call *)
(* returns reflects every mutation its caller enqueued before it, its own *)
(* stats.requests increment included: they are all among the closures     *)
(* applied before the snapshot, and counters in the body hold their sums. *)
C3_SnapshotReflectsOwnCalls ==
  /\ \A i \in 1..Len(applied) : applied[i].seq = i
  /\ \A i \in 1..Len(chanBuf) : chanBuf[i].seq = Len(applied) + i
  /\ \A p \in Producers :
       result[p].kind = "json" =>
         LET log == Prefix(applied, result[p].at)
         IN  /\ \A k \in 1..result[p].k :
                  \E i \in 1..Len(log) :
                    log[i].p = p /\ log[i].k = k /\ log[i].op # "GetStats"
             /\ \A n \in CounterNames :
                  (WritesTo(log, n) # {} /\ CounterOnly(log, n))
                    => result[p].body.tree[n] = Number(SignedSum(log, n))

(* a producer called Incr("requests", d) and then GetStats, which returned *)
(* a body that counts one stats.requests                                   *)
C3_Witness ==
  \E p \in Producers :
    /\ result[p].kind = "json"
    /\ result[p].k = 2
    /\ \E i \in 1..result[p].at :
         applied[i].p = p /\ applied[i].k = 1 /\ applied[i].op = "Incr"
    /\ result[p].body.tree["stats.requests"] = Number(1)

---------------------------------------------------------------------------
(* A send on a nil channel never completes, and nothing gives the sender  *)
(* another channel: the goroutine is blocked for good.                    *)
BlockedForever(p) == pc[p] = "send" /\ ch[p] = "nil"

(* The loop is inside SendEvent(s) on a sink whose owner has closed it: its *)
(* send on the nil r.jobChan never completes, no closure is received again. *)
LoopStuck == loopPc = "sink_send" /\ loopOut.rch = "nil"

(* The loop evaluates s.jobChan anew at every select. Once Close has set *)
(* the field to nil the loop waits on a nil channel, which is never ready *)
(* and never reports closed: only the timer wakes it, and it then waits   *)
(* on nil again. It never exits and receives no closure still queued.     *)
LoopOrphaned == jobChan = "nil" /\ loopPc = "select" /\ loopCh = "nil"

(* C4 as amended: without RetainInternal no GetStats call ever returns a   *)
(* JSON body; a call that returns, returns ErrStatsNotTracked or, when its *)
(* timeout fires first, ErrTimedOut.                                       *)
C4_NeverJsonWithoutRetention ==
  ~config.RetainInternal =>
    \A p \in Producers :
      /\ responseChan[p] = NoMsg
      /\ result[p].kind # "json"
      /\ result[p] # NoMsg => result[p].err \in {"ErrStatsNotTracked", "ErrTimedOut"}

(* a GetStats call without retention returned ErrStatsNotTracked *)
C4_Witness ==
  /\ ~config.RetainInternal
  /\ \E p \in Producers : result[p].err = "ErrStatsNotTracked"

(* C4 as claimed: without RetainInternal every GetStats call, whatever its *)
(* timeout and the state of the loop, returns ErrStatsNotTracked.          *)
C4_AlwaysNotTracked ==
  ~config.RetainInternal =>
    \A p \in Producers : result[p] # NoMsg => result[p].err = "ErrStatsNotTracked"

(* C5: GetStats with timeout 0 against a busy loop returns ErrTimedOut and *)
(* does not block indefinitely, whatever the occupancy of the queue: no    *)
(* such call is ever waiting to send on the full queue of a loop that will *)
(* never receive again.                                                    *)
C5_ZeroTimeoutNeverBlocks ==
  \A p \in Producers :
    ~ /\ call[p].op = "GetStats"
      /\ call[p].timeout = 0
      /\ call[p].busy
      /\ pc[p] = "send"
      /\ SendOutcome(ch[p], chanClosed, chanBuf, config.JobBuffer) = "block"
      /\ LoopStuck

(* C6: a mutation call issued after Close has returned never changes the   *)
(* Metric Store: its closure never gets onto the queue, so the loop never  *)
(* applies it.                                                             *)
C6_NoEffectAfterClose ==
  /\ \A i \in 1..Len(chanBuf) : chanBuf[i].when # "after"
  /\ \A i \in 1..Len(applied) : applied[i].when # "after"

(* a mutation call was issued after Close returned, and is at its send *)
C6_Witness ==
  \E p \in Producers :
    /\ call[p].when = "after"
    /\ call[p].op \in {"Incr", "Decr", "Timing", "Gauge"}
    /\ pc[p] = "send"
    /\ chanClosed

(* C7: a GetStats call in flight when Close is called eventually returns; *)
(* it is never blocked for good.                                          *)
C7_InFlightGetStatsReturns ==
  \A p \in Producers :
    (call[p].op = "GetStats" /\ call[p].when = "before") => ~BlockedForever(p)

(* C8: Incr or Decr called on a closed aggregator returns to its caller:  *)
(* it is never blocked for good (and does not abort the process).         *)
C8_CounterCallAfterCloseReturns ==
  \A p \in Producers :
    (call[p].op \in {"Incr", "Decr"} /\ call[p].when = "after") => ~BlockedForever(p)

(* C9: no producer ever sends on the closed request queue. *)
C9_NoSendOnClosedQueue == panicked # "send on closed channel"

(* C10: whatever the number of Close calls, none performs a second close  *)
(* of the channel or a close of a nil channel.                            *)
C10_CloseOnce ==
  panicked \notin {"close of nil channel", "close of closed channel"}

---------------------------------------------------------------------------
(* C11: single writer. Every step that changes the Metric Store (flatStats *)
(* and the JSON tree) is a step of the loop leaving its select: no step of *)
(* a producer changes it. While the loop is inside a callback (a closure   *)
(* or a timer flush that is handing events to the sink) no other callback  *)
(* starts: no closure is received and the store is not touched.            *)
C11_SingleWriter ==
  [][ /\ (flatStats' # flatStats \/ json' # json)
           => /\ loopPc = "select"
              /\ loopPc' \in {"for", "call_sink"}
              /\ pc' = pc
      /\ loopPc \in {"call_sink", "sink_send"}
           => /\ flatStats' = flatStats
              /\ json' = json
              /\ applied' = applied
              /\ loopOut'.from \in {loopOut.from, "none"} ]_vars

(* a timer flush is handing its events to the sink while one producer has *)
(* a closure queued and the other is at its send                          *)
C11_Witness ==
  /\ loopPc = "sink_send"
  /\ loopOut.from = "flush"
  /\ chanBuf # <<>>
  /\ \E p \in Producers : pc[p] = "send" /\ chanBuf[1].p # p

(* C12: after Close the loop terminates, having applied every request     *)
(* enqueued before Close: once a Close call has returned the loop is never *)
(* left waiting on a channel that cannot report the close.                 *)
C12_LoopTerminatesAfterClose ==
  (\E c \in Closers : cpc[c] = "done") => ~LoopOrphaned

(* C13: Stats.Close never closes the sink. No step of a Close call changes *)
(* the sink (its channel field, whether the channel is closed, its queue,  *)
(* its loop): a sink that is open before the step is open after it and     *)
(* keeps accepting events. The last step of Close only clears the          *)
(* aggregator's own reference.                                             *)
C13_CloseLeavesSinkOpen ==
  [][ cpc' # cpc
        => /\ rJobChan' = rJobChan
           /\ rClosed' = rClosed
           /\ rBuf' = rBuf
           /\ rLoop' = rLoop
           /\ (\A c \in Closers : cpc'[c] = "done" => riemannClient' = "nil") ]_vars

(* Close has returned on an aggregator whose sink had taken its events:   *)
(* the reference is cleared, the sink is open and would accept a send     *)
C13_Witness ==
  /\ \E c \in Closers : cpc[c] = "done"
  /\ riemannClient = "nil"
  /\ rBuf # <<>>
  /\ rLoop
  /\ SendOutcome(rJobChan, rClosed, <<>>, SinkJobBuffer) = "ok"

(* the producer is in a mutation call whose send finds the queue full *)
MutationBlocked(p) ==
  /\ call[p].op \in {"Incr", "Decr", "Timing", "Gauge"}
  /\ pc[p] = "send"
  /\ SendOutcome(ch[p], chanClosed, chanBuf, config.JobBuffer) = "block"

(* C14: a sink failure never reaches the producers. Whatever happens to   *)
(* the sink (closed by its owner, queue full), the loop is never held by   *)
(* it for good while mutations are queued or a mutation call is waiting to *)
(* enqueue, and a send to the sink never aborts the process.               *)
C14_SinkFailureNotPropagated ==
  /\ ~(LoopStuck /\ chanBuf # <<>>)
  /\ \A p \in Producers : ~(LoopStuck /\ MutationBlocked(p))
  /\ panicked # "send on closed channel"

(* the timer flush in progress will never rearm the timer: its send to the *)
(* sink never completes, or it has aborted the process                     *)
FlushStuck == loopOut.from = "flush" /\ LoopStuck

FlushAborted ==
  /\ loopOut.from = "flush"
  /\ \/ panicked = "nil pointer dereference"
     \/ panicked = "send on closed channel" /\ ~chanClosed

(* C15: on every timer fire the loop recomputes the derived metrics, hands *)
(* an attached sink one batch with exactly one event per name in the store *)
(* and rearms the timer: a flush in progress carries the events of the     *)
(* store with the derived metrics present, and always gets to its rearm.   *)
C15_FlushOnEveryTimerFire ==
  /\ loopOut.from = "flush"
       => /\ flatStats["uptime"] # Absent
          /\ flatStats["goroutines"] # Absent
          /\ loopOut.events = FlushEvents(flatStats)
          /\ Cardinality(loopOut.events)
               = Cardinality({n \in AllNames : flatStats[n] # Absent})
  /\ ~FlushStuck
  /\ ~FlushAborted

(* the target names the configuration asks for: RootPath and the metric   *)
(* name, joined as a dotted path ("service.requests") or directly          *)
TargetNames(n) == {config.RootPath \o "." \o n, config.RootPath \o n}

WellFormedEvent(e, n, val) ==
  /\ e.Service \in TargetNames(n)
  /\ e.Metric = val
  /\ e.Tags = <<"stat">>
  /\ e.TTL = 2 * config.PushInterval

(* C16: every event handed to the sink, under every configuration, names  *)
(* the configured prefix followed by the metric name, carries the metric's *)
(* current value, the tag "stat" and a time-to-live of twice the push      *)
(* interval (TTL is kept in thousandths of a second: 2000 for 1000 ms).    *)
C16_EventShape ==
  /\ \A e \in loopOut.events :
       \E n \in AllNames : WellFormedEvent(e, n, flatStats[n])
  /\ \A i \in 1..Len(rBuf) :
       \A e \in rBuf[i].events :
         \E n \in AllNames : \E v \in Floats : WellFormedEvent(e, n, FloatVal(v))

(* the uptime and goroutines entries of the store and of the JSON tree *)
Derived(st) ==
  <<st.flat["uptime"], st.flat["goroutines"],
    st.json.tree["uptime"], st.json.tree["goroutines"]>>

(* A step recomputes the derived metrics exactly when it is a timer fire  *)
(* or the loop running a GetStats closure (only with retention, when      *)
(* retainedOnly): such a step leaves them at the values of updateInternals *)
(* and every other step leaves them as they were.                         *)
RecomputedExactlyOn(retainedOnly) ==
  LET jobStep == applied' # applied
      timerStep == /\ loopPc = "select"
                   /\ loopPc' \in {"for", "call_sink"}
                   /\ applied' = applied
      readStep == /\ jobStep
                  /\ applied'[Len(applied')].op = "GetStats"
                  /\ (retainedOnly => config.RetainInternal)
  IN  IF timerStep \/ readStep
      THEN /\ flatStats'["uptime"] = FloatVal(now)
           /\ flatStats'["goroutines"] = IntVal(NumGoroutine)
           /\ config.RetainInternal
                => /\ json'.tree["uptime"] = SecondsString(now)
                   /\ json'.tree["goroutines"] = Number(NumGoroutine)
      ELSE Derived([flat |-> flatStats', json |-> json']) = Derived(Store)

(* C17 as amended: uptime and goroutines are recomputed in the store on    *)
(* every timer fire, with or without retention, and on every GetStats      *)
(* request the loop processes when retention is enabled; a GetStats        *)
(* request without retention, and every other event, leaves them as they   *)
(* were.                                                                   *)
C17_DerivedRecomputed == [][RecomputedExactlyOn(TRUE)]_vars

(* with retention, before the first timer fire, a GetStats call returned a *)
(* body showing the uptime its request computed                            *)
C17_Witness ==
  /\ config.RetainInternal
  /\ now = 0
  /\ flatStats["uptime"] = FloatVal(0)
  /\ \E p \in Producers :
       /\ result[p].kind = "json"
       /\ result[p].body.tree["uptime"] = SecondsString(0)

(* C17 as claimed: the derived metrics are recomputed on every GetStats    *)
(* request the loop processes and on every timer fire, and by no other     *)
(* event, whether or not retention is enabled.                             *)
C17_RecomputedWithOrWithoutRetention == [][RecomputedExactlyOn(FALSE)]_vars

(* the value the update rule gives a stat after the requests of log, from *)
(* an empty store: a counter update adds its signed delta to the previous *)
(* integer, or to 0 when the stat is absent or holds a Gauge or Timing    *)
(* value; a Gauge or Timing write replaces whatever is there.             *)
RECURSIVE Replay(_, _)
Replay(log, n) ==
  IF log = <<>> THEN Absent
  ELSE LET j == log[Len(log)]
           prev == Replay(SubSeq(log, 1, Len(log) - 1), n)
           base == IF prev.kind = "int" THEN prev.v ELSE 0
       IN  IF j.stat # n THEN prev
           ELSE IF j.op = "Incr" THEN IntVal(base + j.value)
           ELSE IF j.op = "Decr" THEN IntVal(base - j.value)
           ELSE IF j.op \in {"Gauge", "Timing"} THEN FloatVal(j.value)
           ELSE prev

(* C18: counter update with kind coercion. After any sequence of applied  *)
(* requests every stat holds what the update rule gives: Incr and Decr    *)
(* store prev + d and prev - d as an integer, prev being 0 for an absent   *)
(* stat or one last written by Gauge or Timing, and Gauge and Timing       *)
(* overwrite unconditionally and change the kind.                          *)
C18_CounterCoercion ==
  \A n \in CounterNames : flatStats[n] = Replay(applied, n)

(* a Gauge or Timing of 2, then a Decr of 1 of the same stat: the counter *)
(* restarted from 0 and holds -1                                           *)
C18_Witness ==
  /\ Len(applied) = 2
  /\ applied[1].stat = "requests" /\ applied[2].stat = "requests"
  /\ applied[1].op \in {"Gauge", "Timing"} /\ applied[1].value = 2
  /\ applied[2].op = "Decr" /\ applied[2].value = 1
  /\ flatStats["requests"] = IntVal(0 - 1)

(* the read request of call k of producer p *)
ReadOf(job, p, k) == job.op = "GetStats" /\ job.p = p /\ job.k = k

(* C19: the read request of a GetStats call that has timed out is run by  *)
(* the loop without blocking on the reply, and its result reaches no other *)
(* call. The reply channels (one slot each) of a queued read request are   *)
(* empty, so the reply never waits; a reply in a channel, and every result *)
(* returned, belongs to the very call that owns the channel; a call that   *)
(* timed out has returned ErrTimedOut with its channels dropped.           *)
C19_TimedOutResultDiscarded ==
  /\ \A i \in 1..Len(chanBuf) :
       (chanBuf[i].op = "GetStats" /\ Waiting(chanBuf[i]))
         => /\ responseChan[chanBuf[i].p] = NoMsg
            /\ errorChan[chanBuf[i].p] = NoMsg
  /\ \A p \in Producers :
       /\ responseChan[p] # NoMsg
            => call[p].op = "GetStats" /\ responseChan[p].k = call[p].k
       /\ errorChan[p] # NoMsg
            => call[p].op = "GetStats" /\ errorChan[p].k = call[p].k
       /\ result[p] # NoMsg => result[p].k = ncalls[p]
       /\ result[p].kind = "json"
            => ReadOf(applied[result[p].at], p, result[p].k)

(* a call returned ErrTimedOut; the loop ran its read request afterwards, *)
(* nothing reached the caller, and the loop went on to the next request   *)
C19_Witness ==
  \E p \in Producers :
    /\ result[p].err = "ErrTimedOut"
    /\ pc[p] = "idle"
    /\ responseChan[p] = NoMsg
    /\ \E i \in 1..Len(applied) :
         /\ ReadOf(applied[i], p, result[p].k)
         /\ i > result[p].at
         /\ i < Len(applied)

(* C20: the loop uses the sink only while it is attached. Between finding *)
(* s.riemannClient non-nil and calling SendEvent or SendEvents on it the   *)
(* field never becomes nil, so the call neither dereferences a nil client  *)
(* nor goes to a sink that has been detached.                              *)
C20_SinkUsedOnlyWhileAttached ==
  /\ ~(loopPc = "call_sink" /\ riemannClient = "nil")
  /\ panicked # "nil pointer dereference"

====
